---- MODULE Spec2Model ----
(***************************************************************************)
(* Model of src/src/models/hed_rnn.py: class DeepEncoderDecoderNetwork.     *)
(*                                                                         *)
(* The constructor is modelled step by step (the assertion, one action per *)
(* iteration of the layer loop, the output layer, the momentum buffers,    *)
(* the loss), then the three builders of training functions and the call   *)
(* of a compiled training function.  Theano expressions are kept symbolic  *)
(* (records naming the operation and its operands); shared variables hold  *)
(* integers.  Python indexing, including negative indices, is modelled by  *)
(* PyIndex.                                                                *)
(***************************************************************************)
EXTENDS Integers, Sequences, FiniteSets, TLC

VARIABLES
    \* arguments of __init__ (line 30)
    n_in, n_out, hidden_layer_size, hidden_layer_type, output_type,
    network_type, ed_type, MLU_div, loss_function, rnn_batch_training,
    optimizer,
    \* position in the program and how it ended
    pc, raised, log,
    \* locals and attributes of __init__
    i, encoder_count, prev_seg_end, rnn_layers, params, final_layer,
    updates, finetune_cost, errors,
    \* the builder that was called, the training function it compiled, the
    \* values of the shared variables, the arguments of the last training
    \* call and the increment it added to each parameter
    called, lhuc_params, train_model, value, call, increment, calls

inputs == <<n_in, n_out, hidden_layer_size, hidden_layer_type, output_type,
            network_type, ed_type, MLU_div, loss_function,
            rnn_batch_training, optimizer>>
ctor   == <<i, encoder_count, prev_seg_end, rnn_layers, params, final_layer,
            updates, finetune_cost, errors>>
train  == <<called, lhuc_params, train_model, value, call, increment, calls>>
vars   == <<inputs, pc, raised, log, ctor, train>>

(***************************************************************************)
(* Bounds of the model.                                                    *)
(***************************************************************************)
MaxLayers == 2      \* longest hidden_layer_type list
MaxCalls  == 2      \* calls of a compiled training function

(***************************************************************************)
(* Python strings and lists.                                               *)
(***************************************************************************)
UpperCase == "ABCDEFGHIJKLMNOPQRSTUVWXYZ"
LowerCase == "abcdefghijklmnopqrstuvwxyz"

CharAt(s, k) == SubSeq(s, k, k)

\* one character through a case table
MapChar(c, from, to) ==
    IF \E k \in 1..Len(from) : CharAt(from, k) = c
    THEN CharAt(to, CHOOSE k \in 1..Len(from) : CharAt(from, k) = c)
    ELSE c

RECURSIVE MapString(_, _, _)
MapString(s, from, to) ==
    IF s = "" THEN ""
    ELSE MapChar(CharAt(s, 1), from, to) \o MapString(SubSeq(s, 2, Len(s)), from, to)

\* str.lower() and str.upper()
lower(s) == MapString(s, UpperCase, LowerCase)
upper(s) == MapString(s, LowerCase, UpperCase)

\* the tag taken whole, its last character kept
DropLastKept(s) == s

\* s[0:-1]
DropLast(s) == SubSeq(s, 1, Len(s) - 1)

\* x in list
In(x, list) == \E k \in 1..Len(list) : list[k] = x

\* list[k] for a Python index k: negative indices count from the end
InRange(list, k) == -Len(list) <= k /\ k < Len(list)
PyIndex(list, k) == IF k < 0 THEN list[Len(list) + k + 1] ELSE list[k + 1]

(***************************************************************************)
(* The tag lists of __init__.                                              *)
(***************************************************************************)
list_of_activations == <<"TANH", "SIGMOID", "SOFTMAX", "RELU", "RESU">>
BLSTM_variants      == <<"BLSTM", "BSLSTM", "BLSTME", "BSLSTME">>
Encoder_variants    == <<"RNNE", "LSTME", "BLSTME", "SLSTME", "TANHE">>
Decoder_variants    == <<"RNND", "LSTMD", "SLSTMD">>

(***************************************************************************)
(* Symbolic Theano expressions.                                            *)
(***************************************************************************)
NoDur  == [name |-> "", sliced |-> FALSE, start |-> <<>>, seg |-> -1]
NoFeat == [name |-> "", sliced |-> FALSE, lo |-> 0, hi |-> 0]

\* self.x (base "x") or self.rnn_layers[layer].output (base "output")
Plain(base, layer) ==
    [base |-> base, layer |-> layer, encoded |-> FALSE, dur |-> NoDur, feat |-> NoFeat]

\* T.concatenate((DistributedSequenceEncoder(rng, e, dur).encoded_output, feat), axis=1)
Encoded(e, dur, feat) ==
    [base |-> e.base, layer |-> e.layer, encoded |-> TRUE, dur |-> dur, feat |-> feat]

(***************************************************************************)
(* Layer objects.  The layer classes live in layers/ and models/seq2seq,   *)
(* outside this file: a layer is the record of its constructor arguments,  *)
(* and LayerParams names the shared variables its params list holds.       *)
(***************************************************************************)
NoLayer == [cls |-> "", input |-> Plain("", -1), n_in |-> 0, n_h |-> 0,
            activation |-> "", n_out |-> 0]

Layer(cls, input, input_size, size, activation, out) ==
    [cls |-> cls, input |-> input, n_in |-> input_size, n_h |-> size,
     activation |-> activation, n_out |-> out]

LayerParams(cls) ==
    CASE cls \in {"GeneralLayer", "LinearLayer"}      -> <<"W", "b">>
      [] cls = "SigmoidLayer_LHUC"                    -> <<"W", "b", "c">>
      [] cls = "VanillaLstm_LHUC"                     -> <<"W_xi", "W_hi", "c">>
      [] cls = "RecurrentOutputLayer"                 -> <<"W_h", "W_y", "b_y">>
      [] cls \in {"VanillaRNNDecoder", "VanillaLstmDecoder",
                  "SimplifiedLstmDecoder"}            -> <<"W_xi", "W_hi", "W_yi", "U_ho">>
      [] OTHER                                        -> <<"W_xi", "W_hi", "b_i">>

\* the shared variables of the layer at Python index k
ParamsOf(k, layer) ==
    [j \in 1..Len(LayerParams(layer.cls)) |->
        [layer |-> k, name |-> LayerParams(layer.cls)[j]]]

(***************************************************************************)
(* __init__, lines 90-161: one iteration of the layer loop.                *)
(***************************************************************************)
\* lines 91-96
InputSize(k) ==
    IF k = 0 THEN n_in
    ELSE IF In(PyIndex(hidden_layer_type, k - 1), BLSTM_variants)
         THEN PyIndex(hidden_layer_size, k - 1) * 2
         ELSE PyIndex(hidden_layer_size, k - 1)

\* lines 98-101
LayerInput(k) == IF k = 0 THEN Plain("x", -1) ELSE Plain("output", k - 1)

\* line 104: hidden_layer_type[i-1] is a Python index, so i = 0 reads the last tag
FeedsEncoder(k) == In(PyIndex(hidden_layer_type, k - 1), Encoder_variants)

\* lines 104-123: what the sequence-to-sequence block leaves in the locals
SequenceEncoder(k, layer_input, input_size) ==
    LET same == [raised |-> "", layer_input |-> layer_input, input_size |-> input_size,
                 prev_seg_end |-> prev_seg_end, encoder_count |-> encoder_count]
    IN  IF ~FeedsEncoder(k) THEN same
        ELSE IF network_type # "S2S"
        THEN [same EXCEPT !.raised = "AttributeError"]       \* self.d, lines 74-76, 105
        ELSE IF ed_type = "VED"
        THEN [same EXCEPT
                !.layer_input = Encoded(layer_input,
                                        [NoDur EXCEPT !.name = "d"],
                                        [NoFeat EXCEPT !.name = "f"]),
                !.input_size = input_size + 4]
        ELSE IF ed_type = "HED"
        THEN IF ~InRange(MLU_div, encoder_count) \/ ~InRange(MLU_div, encoder_count + 1)
             THEN [same EXCEPT !.raised = "IndexError"]      \* line 119
             ELSE [same EXCEPT
                     !.layer_input = Encoded(layer_input,
                         [name |-> "d", sliced |-> TRUE, start |-> prev_seg_end, seg |-> k],
                         [name |-> "f", sliced |-> TRUE,
                          lo |-> PyIndex(MLU_div, encoder_count),
                          hi |-> PyIndex(MLU_div, encoder_count + 1)]),
                     !.input_size = input_size + (PyIndex(MLU_div, encoder_count + 1)
                                                  - PyIndex(MLU_div, encoder_count)),
                     !.prev_seg_end = Append(prev_seg_end, k),
                     !.encoder_count = encoder_count + 1]
        ELSE same

\* lines 126-158: the layer a tag builds; cls "" when the tag is not supported
HiddenLayer(tag, layer_input, input_size, size) ==
    IF In(tag, list_of_activations)
    THEN Layer("GeneralLayer", layer_input, input_size, size, lower(tag), 0)
    ELSE IF tag = "TANHE" \/ tag = "SIGMOIDE"
    THEN Layer("GeneralLayer", layer_input, input_size, size, lower(DropLast(tag)), 0)
    ELSE IF tag = "TANH_LHUC"
    THEN Layer("SigmoidLayer_LHUC", layer_input, input_size, size, "T.tanh", 0)
    ELSE IF tag = "SLSTM" \/ tag = "SLSTME"
    THEN Layer("SimplifiedLstm", layer_input, input_size, size, "", 0)
    ELSE IF tag = "SLSTMD"
    THEN Layer("SimplifiedLstmDecoder", layer_input, input_size, size, "", n_out)
    ELSE IF tag = "SGRU"
    THEN Layer("SimplifiedGRU", layer_input, input_size, size, "", 0)
    ELSE IF tag = "GRU"
    THEN Layer("GatedRecurrentUnit", layer_input, input_size, size, "", 0)
    ELSE IF tag = "LSTM" \/ tag = "LSTME"
    THEN Layer("VanillaLstm", layer_input, input_size, size, "", 0)
    ELSE IF tag = "LSTMD"
    THEN Layer("VanillaLstmDecoder", layer_input, input_size, size, "", n_out)
    ELSE IF tag = "BSLSTM" \/ tag = "BSLSTME"
    THEN Layer("BidirectionSLstm", layer_input, input_size, size, "", size)
    ELSE IF tag = "BLSTM" \/ tag = "BLSTME"
    THEN Layer("BidirectionLstm", layer_input, input_size, size, "", size)
    ELSE IF tag = "RNN" \/ tag = "RNNE"
    THEN Layer("VanillaRNN", layer_input, input_size, size, "", 0)
    ELSE IF tag = "RNND"
    THEN Layer("VanillaRNNDecoder", layer_input, input_size, size, "", n_out)
    ELSE IF tag = "LSTM_LHUC"
    THEN Layer("VanillaLstm_LHUC", layer_input, input_size, size, "", 0)
    ELSE NoLayer

Critical(msg, arg) == [level |-> "critical", msg |-> msg, arg |-> arg]

\* initial value of a freshly created shared variable
Fresh(ps, f) == [p \in (DOMAIN f) \cup {ps[j] : j \in 1..Len(ps)} |->
                    IF p \in DOMAIN f THEN f[p] ELSE 0]

(***************************************************************************)
(* __init__ as steps.                                                      *)
(***************************************************************************)
n_layers == Len(hidden_layer_size)                                \* line 51

\* the assertion compiled away
AssertLengthsSkipped ==
    /\ pc = "assert"
    /\ pc' = "layers"
    /\ UNCHANGED <<inputs, raised, log, ctor, train>>

\* line 59
AssertLengths ==
    /\ pc = "assert"
    /\ IF Len(hidden_layer_size) = Len(hidden_layer_type)
       THEN pc' = "layers" /\ raised' = raised
       ELSE pc' = "raised" /\ raised' = "AssertionError"
    /\ UNCHANGED <<inputs, log, ctor, train>>

\* lines 90-161, the body of the loop for one i
HiddenLayerStep ==
    /\ pc = "layers"
    /\ i < n_layers
    /\ LET enc   == SequenceEncoder(i, LayerInput(i), InputSize(i))
           tag   == PyIndex(hidden_layer_type, i)
           layer == HiddenLayer(tag, enc.layer_input, enc.input_size,
                                PyIndex(hidden_layer_size, i))
       IN  IF enc.raised # ""
           THEN /\ pc' = "raised"
                /\ raised' = enc.raised
                /\ UNCHANGED <<log, ctor, value>>
           ELSE IF layer = NoLayer
           THEN /\ log' = Append(log,
                     Critical("This hidden layer type: %s is not supported right now!", tag))
                /\ pc' = "raised"
                /\ raised' = "SystemExit(1)"
                /\ prev_seg_end' = enc.prev_seg_end
                /\ encoder_count' = enc.encoder_count
                /\ UNCHANGED <<i, rnn_layers, params, final_layer, updates,
                               finetune_cost, errors, value>>
           ELSE /\ rnn_layers' = Append(rnn_layers, layer)
                /\ params' = params \o ParamsOf(i, layer)
                /\ value' = Fresh(ParamsOf(i, layer), value)
                /\ prev_seg_end' = enc.prev_seg_end
                /\ encoder_count' = enc.encoder_count
                /\ i' = i + 1
                /\ UNCHANGED <<pc, raised, log, final_layer, updates,
                               finetune_cost, errors>>
    /\ UNCHANGED <<inputs, called, lhuc_params, train_model, call, increment, calls>>

\* lines 163-165
OutputInputSize ==
    IF In(PyIndex(hidden_layer_type, -1), BLSTM_variants)
    THEN PyIndex(hidden_layer_size, -1) * 2
    ELSE PyIndex(hidden_layer_size, -1)

\* line 167
LastIsDecoder == In(PyIndex(hidden_layer_type, -1), Decoder_variants)

\* output_type compared as given, without lower() and upper()
OutputLayerCaseSensitive(input_size) ==
    LET input == Plain("output", Len(rnn_layers) - 1)
    IN  IF output_type = "linear"
        THEN Layer("LinearLayer", input, input_size, n_out, "", 0)
        ELSE IF output_type = "recurrent"
        THEN Layer("RecurrentOutputLayer", input, input_size, n_out, "", 0)
        ELSE IF In(output_type, list_of_activations)
        THEN Layer("GeneralLayer", input, input_size, n_out, lower(output_type), 0)
        ELSE NoLayer

\* lines 170-179: the separate output layer; NoLayer when output_type is not supported
OutputLayerOf(input_size) ==
    LET output_activation == lower(output_type)
        input == Plain("output", Len(rnn_layers) - 1)
    IN  IF output_activation = "linear"
        THEN Layer("LinearLayer", input, input_size, n_out, "", 0)
        ELSE IF output_activation = "recurrent"
        THEN Layer("RecurrentOutputLayer", input, input_size, n_out, "", 0)
        ELSE IF In(upper(output_type), list_of_activations)
        THEN Layer("GeneralLayer", input, input_size, n_out, output_activation, 0)
        ELSE NoLayer

NoFinal == [shared |-> FALSE, layer |-> NoLayer]

\* lines 163-181, after the loop has run out
OutputLayer ==
    /\ pc = "layers"
    /\ i >= n_layers
    /\ IF ~InRange(hidden_layer_size, -1)
       THEN /\ pc' = "raised"
            /\ raised' = "IndexError"                                  \* line 163
            /\ UNCHANGED <<log, ctor, value>>
       ELSE IF LastIsDecoder
       THEN /\ final_layer' = [shared |-> TRUE, layer |-> PyIndex(rnn_layers, -1)]
            /\ pc' = "updates"
            /\ UNCHANGED <<raised, log, i, encoder_count, prev_seg_end, rnn_layers,
                           params, updates, finetune_cost, errors, value>>
       ELSE LET layer == OutputLayerOf(OutputInputSize)
            IN  IF layer = NoLayer
                THEN /\ log' = Append(log,
                          Critical("This output layer type: %s is not supported right now!",
                                   output_type))
                     /\ pc' = "raised"
                     /\ raised' = "SystemExit(1)"
                     /\ UNCHANGED <<ctor, value>>
                ELSE /\ final_layer' = [shared |-> FALSE, layer |-> layer]
                     /\ params' = params \o ParamsOf(n_layers, layer)
                     /\ value' = Fresh(ParamsOf(n_layers, layer), value)
                     /\ pc' = "updates"
                     /\ UNCHANGED <<raised, log, i, encoder_count, prev_seg_end,
                                    rnn_layers, updates, finetune_cost, errors>>
    /\ UNCHANGED <<inputs, called, lhuc_params, train_model, call, increment, calls>>

\* lines 183-186
MomentumBuffers ==
    /\ pc = "updates"
    /\ updates' = [p \in {params[j] : j \in 1..Len(params)} |-> 0]
    /\ increment' = [p \in {params[j] : j \in 1..Len(params)} |-> 0]
    /\ pc' = "loss"
    /\ UNCHANGED <<inputs, raised, log, i, encoder_count, prev_seg_end, rnn_layers,
                   params, final_layer, finetune_cost, errors, called, lhuc_params,
                   train_model, value, call, calls>>

NoExpr == [fn |-> "", pred |-> "", target |-> ""]

\* lines 188-208 and 210-223: the loss expression, NoExpr when no branch is taken
LossOf(name) ==
    IF name = "CCE"
    THEN [fn |-> "categorical_crossentropy.mean", pred |-> "final_layer.output",
          target |-> "y"]
    ELSE IF name = "Hinge"
    THEN [fn |-> "multiclass_hinge_loss", pred |-> "final_layer.output", target |-> "y"]
    ELSE IF name = "MMSE"
    THEN IF rnn_batch_training
         THEN [fn |-> "mean(sum(sqr(pred - target), axis=1))",
               pred |-> "final_layer_output[nonzero_rows]",
               target |-> "y_mod[nonzero_rows]"]
         ELSE [fn |-> "mean(sum(sqr(pred - target), axis=1))",
               pred |-> "final_layer.output", target |-> "y"]
    ELSE NoExpr

\* lines 188-208
Loss ==
    /\ pc = "loss"
    /\ finetune_cost' = LossOf(loss_function)
    /\ errors' = LossOf(loss_function)
    /\ pc' = "constructed"
    /\ UNCHANGED <<inputs, raised, log, i, encoder_count, prev_seg_end, rnn_layers,
                   params, final_layer, updates, train>>

(***************************************************************************)
(* The builders of training functions, lines 226-419.                      *)
(***************************************************************************)
NoCall     == [name |-> "", use_lhuc |-> FALSE, layer_index |-> 0]
NoFunction == [builder |-> "", rule |-> "", updates |-> <<>>]

\* [p for p in self.params if p.name == 'c'], lines 250-253
RECURSIVE Named(_, _)
Named(ps, name) ==
    IF ps = <<>> THEN <<>>
    ELSE IF Head(ps).name = name THEN <<Head(ps)>> \o Named(Tail(ps), name)
    ELSE Named(Tail(ps), name)

\* lines 261-263 and 374-376: sum of len(self.rnn_layers[layer].params), layer < n
RECURSIVE CountParams(_)
CountParams(n) ==
    IF n <= 0 THEN 0
    ELSE CountParams(n - 1) + Len(LayerParams(PyIndex(rnn_layers, n - 1).cls))

\* range(layer_index) indexes self.rnn_layers: IndexError past its end
LayersInRange(n) == \A k \in 0..(n - 1) : InRange(rnn_layers, k)

\* line 276: the parameter at position k (from 0) of the trained list is stepped
Stepped(k, freeze_params) == k >= freeze_params

\* lines 270-277: the updates of build_finetune_functions with 'sgd'
SgdUpdates(ps, freeze_params) ==
    [j \in 1..Len(ps) |->
        [param |-> ps[j], scale |-> 1, step |-> Stepped(j - 1, freeze_params)]]

\* lines 328-332: the updates of build_finetune_functions_S2S
S2SUpdates(ps) ==
    [j \in 1..Len(ps) |-> [param |-> ps[j], scale |-> 1, step |-> TRUE]]

\* lines 383-390: the updates of build_finetune_functions_S2SPF with 'sgd'
S2SPFUpdates(ps, encoder_params) ==
    [j \in 1..Len(ps) |->
        [param |-> ps[j], scale |-> IF j - 1 >= encoder_params THEN 1 ELSE 2,
         step |-> TRUE]]

OptimizerMessage ==
    Critical("This optimizer: %s is not supported right now! \n Please use one of the following: sgd, adam, rprop\n", optimizer)

\* lines 265-285: how the optimizer dispatch of build_finetune_functions ends
Finetune(ps, freeze_params) ==
    IF optimizer = "sgd"
    THEN [raised |-> "", log |-> <<>>, rule |-> "sgd", updates |-> SgdUpdates(ps, freeze_params)]
    ELSE IF optimizer = "adam"
    THEN [raised |-> "", log |-> <<>>, rule |-> "compile_ADAM_train_function", updates |-> <<>>]
    ELSE IF optimizer = "rprop"
    THEN [raised |-> "", log |-> <<>>, rule |-> "compile_RPROP_train_function", updates |-> <<>>]
    ELSE [raised |-> "SystemExit(1)", log |-> <<OptimizerMessage>>, rule |-> "", updates |-> <<>>]

\* lines 320-332: build_finetune_functions_S2S never reads self.optimizer
FinetuneS2S(ps) ==
    [raised |-> "", log |-> <<>>, rule |-> "sgd", updates |-> S2SUpdates(ps)]

\* lines 378-398: build_finetune_functions_S2SPF defines no logger, so the
\* last branch stops at the name lookup of line 397
FinetuneS2SPF(ps, encoder_params) ==
    IF optimizer = "sgd"
    THEN [raised |-> "", log |-> <<>>, rule |-> "sgd", updates |-> S2SPFUpdates(ps, encoder_params)]
    ELSE IF optimizer = "adam"
    THEN [raised |-> "", log |-> <<>>, rule |-> "compile_ADAM_train_function", updates |-> <<>>]
    ELSE IF optimizer = "rprop"
    THEN [raised |-> "", log |-> <<>>, rule |-> "compile_RPROP_train_function", updates |-> <<>>]
    ELSE [raised |-> "NameError", log |-> <<>>, rule |-> "", updates |-> <<>>]

\* lines 334-340 and 401-408: the givens read self.d and self.f, which
\* __init__ sets for network_type 'S2S' only (lines 74-76)
GivenDurations(r) ==
    IF r.raised = "" /\ network_type # "S2S"
    THEN [raised |-> "AttributeError", log |-> <<>>, rule |-> "", updates |-> <<>>]
    ELSE r

\* the end of a builder: theano.function and return, or the process ends
Finish(name, r) ==
    /\ raised' = r.raised
    /\ log' = log \o r.log
    /\ pc' = IF r.raised = "" THEN "built" ELSE "raised"
    /\ train_model' = IF r.raised = "" THEN [builder |-> name, rule |-> r.rule,
                                             updates |-> r.updates]
                      ELSE train_model

\* lines 226-301
build_finetune_functions ==
    /\ pc = "constructed"
    /\ \E use_lhuc \in BOOLEAN, layer_index \in 0..(MaxLayers + 1) :
         /\ called' = [name |-> "build_finetune_functions", use_lhuc |-> use_lhuc,
                       layer_index |-> layer_index]
         /\ IF finetune_cost = NoExpr
            THEN /\ Finish("", [raised |-> "AttributeError", log |-> <<>>])   \* line 245
                 /\ UNCHANGED lhuc_params
            ELSE /\ lhuc_params' = IF use_lhuc THEN Named(params, "c") ELSE lhuc_params
                 /\ IF ~LayersInRange(layer_index)
                    THEN Finish("", [raised |-> "IndexError", log |-> <<>>])  \* line 263
                    ELSE Finish("build_finetune_functions",
                                Finetune(IF use_lhuc THEN Named(params, "c") ELSE params,
                                         CountParams(layer_index)))
    /\ UNCHANGED <<inputs, ctor, value, call, increment, calls>>

\* lines 303-350
build_finetune_functions_S2S ==
    /\ pc = "constructed"
    /\ called' = [name |-> "build_finetune_functions_S2S", use_lhuc |-> FALSE,
                  layer_index |-> 0]
    /\ IF finetune_cost = NoExpr
       THEN Finish("", [raised |-> "AttributeError", log |-> <<>>])           \* line 320
       ELSE Finish("build_finetune_functions_S2S", GivenDurations(FinetuneS2S(params)))
    /\ UNCHANGED <<inputs, ctor, lhuc_params, value, call, increment, calls>>

\* lines 352-419
build_finetune_functions_S2SPF ==
    /\ pc = "constructed"
    /\ \E layer_index \in 0..(MaxLayers + 1) :
         /\ called' = [name |-> "build_finetune_functions_S2SPF", use_lhuc |-> FALSE,
                       layer_index |-> layer_index]
         /\ IF finetune_cost = NoExpr
            THEN Finish("", [raised |-> "AttributeError", log |-> <<>>])      \* line 369
            ELSE IF ~LayersInRange(layer_index)
            THEN Finish("", [raised |-> "IndexError", log |-> <<>>])          \* line 376
            ELSE Finish("build_finetune_functions_S2SPF",
                        GivenDurations(FinetuneS2SPF(params, CountParams(layer_index))))
    /\ UNCHANGED <<inputs, ctor, lhuc_params, value, call, increment, calls>>

(***************************************************************************)
(* A call train_model(lr, mom) of a function compiled with the momentum    *)
(* updates.  Every update reads the values held before the call.           *)
(***************************************************************************)
LearningRates == {1, 2}
Momenta       == {0, 1}
GradientSigns == {-1, 1}

\* T.grad(cost, params) is Theano's: the gradient of the parameter at place
\* j of self.params is drawn as g * j
Place(q) == CHOOSE j \in 1..Len(params) : params[j] = q
Gradient(q, g) == g * Place(q)

\* the gradient step added instead of subtracted
UpdAscent(mom, weight_update, lr, gparam) == mom * weight_update + lr * gparam

\* lines 272, 330, 386, 388
Upd(mom, weight_update, lr, gparam) == mom * weight_update - lr * gparam

Entries == {train_model.updates[j] : j \in 1..Len(train_model.updates)}
EntryOf(q) == CHOOSE e \in Entries : e.param = q
Trained == {e.param : e \in Entries}

train_model_call ==
    /\ pc = "built"
    /\ train_model.rule = "sgd"
    /\ calls < MaxCalls
    /\ \E lr \in LearningRates, mom \in Momenta, g \in GradientSigns :
         LET upd(q) == Upd(mom, updates[q], lr * EntryOf(q).scale, Gradient(q, g))
         IN  /\ call' = [lr |-> lr, mom |-> mom, g |-> g]
             /\ updates' = [q \in DOMAIN updates |->
                              IF q \in Trained THEN upd(q) ELSE updates[q]]
             /\ value' = [q \in DOMAIN value |->
                            IF q \in Trained /\ EntryOf(q).step
                            THEN value[q] + upd(q) ELSE value[q]]
             /\ increment' = [q \in DOMAIN increment |->
                                IF q \in Trained /\ EntryOf(q).step
                                THEN upd(q) ELSE increment[q]]
    /\ calls' = calls + 1
    /\ UNCHANGED <<inputs, pc, raised, log, i, encoder_count, prev_seg_end, rnn_layers,
                   params, final_layer, finetune_cost, errors, called, lhuc_params,
                   train_model>>

NextInit == AssertLengths \/ HiddenLayerStep \/ OutputLayer \/ MomentumBuffers \/ Loss

(***************************************************************************)
(* Initial states: the arguments of __init__ drawn from small sets.        *)
(***************************************************************************)
SupportedTags ==
    {"TANH", "SIGMOID", "SOFTMAX", "RELU", "RESU", "TANHE", "SIGMOIDE", "TANH_LHUC",
     "SLSTM", "SLSTME", "SLSTMD", "SGRU", "GRU", "LSTM", "LSTME", "LSTMD",
     "BSLSTM", "BSLSTME", "BLSTM", "BLSTME", "RNN", "RNNE", "RNND", "LSTM_LHUC"}
\* tags no branch of lines 126-155 takes
OtherTags == {"BGRU", "tanh"}
\* one tag or two of each class the wiring distinguishes
ClassTags == {"TANH", "TANHE", "BLSTM", "BLSTME", "LSTMD", "TANH_LHUC", "BGRU"}

Lists(S, n) == UNION {[1..k -> S] : k \in 0..n}

\* layer k has k + 1 units
Sizes(n) == [k \in 1..n |-> k + 1]

Start ==
    /\ n_in = 7
    /\ n_out = 5
    /\ pc = "assert"
    /\ raised = ""
    /\ log = <<>>
    /\ i = 0
    /\ encoder_count = 0
    /\ prev_seg_end = <<>>
    /\ rnn_layers = <<>>
    /\ params = <<>>
    /\ final_layer = NoFinal
    /\ updates = <<>>
    /\ finetune_cost = NoExpr
    /\ errors = NoExpr
    /\ called = NoCall
    /\ lhuc_params = <<>>
    /\ train_model = NoFunction
    /\ value = <<>>
    /\ call = [lr |-> 0, mom |-> 0, g |-> 0]
    /\ increment = <<>>
    /\ calls = 0

\* every tag, the other arguments as far as the layer loop reads them
InitKinds ==
    /\ Start
    /\ hidden_layer_type \in Lists(SupportedTags \cup OtherTags, MaxLayers)
    /\ hidden_layer_size = Sizes(Len(hidden_layer_type))
    /\ network_type = "S2S"
    /\ \E c \in {<<"VED", <<>>>>, <<"HED", <<>>>>, <<"HED", <<0, 3>>>>} :
          ed_type = c[1] /\ MLU_div = c[2]
    /\ output_type = "LINEAR"
    /\ loss_function = "MMSE"
    /\ rnn_batch_training = FALSE
    /\ optimizer = "sgd"

\* a tag of each class, every argument varied
Init ==
    /\ Start
    /\ hidden_layer_type \in Lists(ClassTags, MaxLayers)
    /\ hidden_layer_size \in {Sizes(Len(hidden_layer_type)),
                              Sizes(Len(hidden_layer_type) + 1)}
    /\ network_type \in {"S2S", "DNN"}
    /\ \E c \in {<<"VED", <<>>>>, <<"HED", <<>>>>, <<"HED", <<0, 3, 5>>>>, <<"", <<>>>>} :
          ed_type = c[1] /\ MLU_div = c[2]
    /\ output_type \in {"LINEAR", "linear", "Recurrent", "SoftMax", "TANHE", "MDN"}
    /\ \E c \in {<<"CCE", FALSE>>, <<"Hinge", FALSE>>, <<"MMSE", FALSE>>,
                  <<"MMSE", TRUE>>, <<"MSE", FALSE>>} :
          loss_function = c[1] /\ rnn_batch_training = c[2]
    /\ optimizer = "sgd"

\* networks of feedforward, LHUC and decoder layers, every optimizer
InitTrain ==
    /\ Start
    /\ hidden_layer_type \in Lists({"TANH", "TANH_LHUC", "LSTMD"}, MaxLayers)
    /\ hidden_layer_size = Sizes(Len(hidden_layer_type))
    /\ network_type \in {"S2S", "DNN"}
    /\ ed_type = "VED"
    /\ MLU_div = <<>>
    /\ output_type = "LINEAR"
    /\ loss_function \in {"MMSE", "MSE"}
    /\ rnn_batch_training = FALSE
    /\ optimizer \in {"sgd", "adam", "rprop", "adagrad"}

Next == \/ NextInit
        \/ build_finetune_functions
        \/ build_finetune_functions_S2S
        \/ build_finetune_functions_S2SPF
        \/ train_model_call

SpecKinds == InitKinds /\ [][NextInit]_vars
SpecTrain == InitTrain /\ [][Next]_vars
Spec      == Init /\ [][NextInit]_vars

(***************************************************************************)
(* Properties of __init__.                                                 *)
(***************************************************************************)
TagsOf(list) == {list[k] : k \in 1..Len(list)}
EqualLengths == Len(hidden_layer_size) = Len(hidden_layer_type)
AllSupported == TagsOf(hidden_layer_type) \subseteq SupportedTags
\* the wiring block of line 104 reads the last tag for layer 0
LastFeedsEncoder ==
    /\ hidden_layer_type # <<>>
    /\ hidden_layer_type[Len(hidden_layer_type)] \in TagsOf(Encoder_variants)
NothingAfterLoop ==
    /\ final_layer = NoFinal
    /\ updates = <<>>
    /\ finetune_cost = NoExpr
    /\ errors = NoExpr

\* the layer class and the activation the claim C1 gives for each tag
C1_Kind(tag) ==
    CASE tag \in {"TANH", "SIGMOID", "SOFTMAX", "RELU", "RESU", "TANHE", "SIGMOIDE"}
                                        -> "GeneralLayer"
      [] tag = "TANH_LHUC"              -> "SigmoidLayer_LHUC"
      [] tag \in {"SLSTM", "SLSTME"}    -> "SimplifiedLstm"
      [] tag = "SLSTMD"                 -> "SimplifiedLstmDecoder"
      [] tag = "SGRU"                   -> "SimplifiedGRU"
      [] tag = "GRU"                    -> "GatedRecurrentUnit"
      [] tag \in {"LSTM", "LSTME"}      -> "VanillaLstm"
      [] tag = "LSTMD"                  -> "VanillaLstmDecoder"
      [] tag \in {"BSLSTM", "BSLSTME"}  -> "BidirectionSLstm"
      [] tag \in {"BLSTM", "BLSTME"}    -> "BidirectionLstm"
      [] tag \in {"RNN", "RNNE"}        -> "VanillaRNN"
      [] tag = "RNND"                   -> "VanillaRNNDecoder"
      [] tag = "LSTM_LHUC"              -> "VanillaLstm_LHUC"
      [] OTHER                          -> "?"
C1_Activation(tag) ==
    CASE tag \in {"TANH", "TANHE"}       -> "tanh"
      [] tag \in {"SIGMOID", "SIGMOIDE"} -> "sigmoid"
      [] tag = "SOFTMAX"                 -> "softmax"
      [] tag = "RELU"                    -> "relu"
      [] tag = "RESU"                    -> "resu"
      [] OTHER                           -> "?"

\* C1 (as amended): at every point of construction the layers built so far
\* are, in list order, the layer kinds their tags map to (a GeneralLayer
\* with the activation of its tag), and once the layer loop has run to its
\* end, in particular whenever construction completes, rnn_layers holds
\* exactly len(hidden_layer_type) layers.
C1_LayerKinds ==
    /\ Len(rnn_layers) <= Len(hidden_layer_type)
    /\ \A k \in 1..Len(rnn_layers) :
         /\ rnn_layers[k].cls = C1_Kind(hidden_layer_type[k])
         /\ rnn_layers[k].cls = "GeneralLayer" =>
                rnn_layers[k].activation = C1_Activation(hidden_layer_type[k])
         /\ rnn_layers[k].n_h = hidden_layer_size[k]
    /\ pc \in {"updates", "loss", "constructed"} =>
         Len(rnn_layers) = Len(hidden_layer_type)

\* C1, witness: a network of a feedforward encoder layer and a GRU layer is
\* constructed.
C1_Witness ==
    /\ pc = "constructed"
    /\ hidden_layer_type = <<"SIGMOIDE", "GRU">>
    /\ rnn_layers[1].activation = "sigmoid"
    /\ rnn_layers[2].cls = "GatedRecurrentUnit"

\* C1 (as stated, on non-empty lists whose last tag is no encoder variant):
\* for equal-length lists of supported tags construction completes, that is,
\* it never ends in an exception or an exit.
C1_ConstructionCompletes ==
    (EqualLengths /\ AllSupported /\ hidden_layer_type # <<>> /\ ~LastFeedsEncoder)
        => raised = ""

\* C2 (as stated, for ed_type 'VED' or 'HED'): layer 0 receives x unmodified;
\* layer k > 0 receives the output of layer k-1, through the sequence
\* encoder exactly when the tag of layer k-1 is an encoder variant.
C2_Wiring ==
    ed_type \in {"VED", "HED"} =>
        \A k \in 1..Len(rnn_layers) :
            IF k = 1 THEN rnn_layers[k].input = Plain("x", -1)
            ELSE /\ rnn_layers[k].input.base = "output"
                 /\ rnn_layers[k].input.layer = k - 2
                 /\ rnn_layers[k].input.encoded
                        = (hidden_layer_type[k - 1] \in TagsOf(Encoder_variants))

\* C4 (as stated): whenever construction completes, finetune_cost and errors
\* exist and are the same expression, the one loss_function selects.
C4_LossDefined ==
    pc = "constructed" =>
        /\ finetune_cost # NoExpr
        /\ errors = finetune_cost
        /\ finetune_cost.fn =
              CASE loss_function = "CCE"   -> "categorical_crossentropy.mean"
                [] loss_function = "Hinge" -> "multiclass_hinge_loss"
                [] OTHER                   -> "mean(sum(sqr(pred - target), axis=1))"

FirstUnsupported ==
    CHOOSE k \in 1..Len(hidden_layer_type) :
        /\ hidden_layer_type[k] \notin SupportedTags
        /\ \A j \in 1..(k - 1) : hidden_layer_type[j] \in SupportedTags

HiddenMessage(tag) ==
    [level |-> "critical", arg |-> tag,
     msg |-> "This hidden layer type: %s is not supported right now!"]

\* C5 (as amended): with lists of different lengths construction fails on
\* the assertion before any layer is built.  With equal lengths and some
\* unsupported tag, first at index u: construction never gets past index u,
\* so no layer at an index >= u, no output layer, no momentum buffer and no
\* loss is ever created; it ends either with the critical 'not supported'
\* message for that tag and exit status 1, reached at i = u with exactly the
\* layers 0..u-1 built, or earlier with an AttributeError or IndexError of
\* the sequence-encoder block of an index <= u; the latter cannot happen
\* with network_type 'S2S' and an ed_type other than 'HED'.  Lists of
\* supported tags never produce the message.
C5_ExitAtFirstUnsupported ==
    /\ ~EqualLengths =>
         /\ pc \in {"assert", "raised"}
         /\ pc = "raised" => raised = "AssertionError"
         /\ rnn_layers = <<>> /\ params = <<>> /\ NothingAfterLoop
    /\ (EqualLengths /\ ~AllSupported) =>
         LET u == FirstUnsupported - 1
         IN  /\ pc \in {"assert", "layers", "raised"}
             /\ i <= u /\ Len(rnn_layers) = i /\ NothingAfterLoop
             /\ pc = "raised" =>
                  \/ /\ raised = "SystemExit(1)"
                     /\ i = u
                     /\ log = <<HiddenMessage(hidden_layer_type[u + 1])>>
                  \/ /\ raised \in {"AttributeError", "IndexError"}
                     /\ log = <<>>
                     /\ ~(network_type = "S2S" /\ ed_type # "HED")
    /\ (EqualLengths /\ AllSupported) =>
         \A k \in 1..Len(log) : log[k].msg # HiddenMessage("").msg

\* C5, witness: the second tag is unsupported, one layer has been built and
\* the process has exited with the message.
C5_Witness ==
    /\ hidden_layer_type = <<"TANH", "BGRU">>
    /\ raised = "SystemExit(1)"
    /\ Len(rnn_layers) = 1
    /\ log = <<HiddenMessage("BGRU")>>

\* C5 (as stated, on lists whose last tag is no encoder variant): if some
\* tag is unsupported, construction ends with the 'not supported' message
\* and exit status 1 at the first such index.
C5_AlwaysExits ==
    (EqualLengths /\ ~AllSupported /\ ~LastFeedsEncoder /\ pc = "raised") =>
        /\ raised = "SystemExit(1)"
        /\ i = FirstUnsupported - 1
        /\ log = <<HiddenMessage(hidden_layer_type[FirstUnsupported])>>

\* the output layer class the claim C7 gives for the values output_type takes
C7_Kind(t) ==
    CASE t \in {"LINEAR", "linear"} -> "LinearLayer"
      [] t = "Recurrent"            -> "RecurrentOutputLayer"
      [] t = "SoftMax"              -> "GeneralLayer"
      [] OTHER                      -> ""

LoopDone ==
    /\ EqualLengths
    /\ hidden_layer_type # <<>>
    /\ Len(rnn_layers) = Len(hidden_layer_type)
    /\ pc \notin {"assert", "layers"}

\* C7: once the layer loop is done, if the last tag is a decoder variant
\* final_layer is the last hidden layer itself, whatever output_type is, and
\* params holds hidden-layer parameters only; otherwise final_layer is a new
\* layer on the last hidden layer's output, of the class output_type names
\* case-insensitively, with n_out units and its parameters at the end of
\* params; any other output_type exits with status 1 and no final layer.
C7_OutputLayer ==
    LoopDone =>
        LET n    == Len(hidden_layer_type)
            last == hidden_layer_type[n]
            own  == {j \in 1..Len(params) : params[j].layer = n}
        IN  IF last \in {"RNND", "LSTMD", "SLSTMD"}
            THEN /\ raised = ""
                 /\ final_layer = [shared |-> TRUE, layer |-> rnn_layers[n]]
                 /\ own = {}
            ELSE IF C7_Kind(output_type) = ""
            THEN /\ raised = "SystemExit(1)"
                 /\ final_layer = NoFinal
                 /\ own = {}
                 /\ Len(log) = 1 /\ log[1].level = "critical" /\ log[1].arg = output_type
            ELSE /\ raised = ""
                 /\ ~final_layer.shared
                 /\ final_layer.layer.cls = C7_Kind(output_type)
                 /\ final_layer.layer.cls = "GeneralLayer" =>
                        final_layer.layer.activation = "softmax"
                 /\ final_layer.layer.input = Plain("output", n - 1)
                 /\ final_layer.layer.n_h = n_out
                 /\ own # {}
                 /\ \A j \in own, k \in 1..Len(params) : k \notin own => k < j

\* C7, witness: a constructed network whose output layer was chosen by the
\* mixed-case output_type 'SoftMax'.
C7_Witness ==
    /\ pc = "constructed"
    /\ output_type = "SoftMax"
    /\ hidden_layer_type = <<"TANH", "BLSTM">>
    /\ final_layer.layer.activation = "softmax"

\* the input width the claim C10 gives for layer k (from 1)
C10_EncodersBefore(k) ==
    Cardinality({j \in 1..(k - 2) : hidden_layer_type[j] \in TagsOf(Encoder_variants)})
C10_Width(k) ==
    IF k = 1 THEN n_in
    ELSE LET base == IF hidden_layer_type[k - 1] \in TagsOf(BLSTM_variants)
                     THEN hidden_layer_size[k - 1] * 2 ELSE hidden_layer_size[k - 1]
             c    == C10_EncodersBefore(k)
         IN  IF hidden_layer_type[k - 1] \notin TagsOf(Encoder_variants) THEN base
             ELSE IF ed_type = "VED" THEN base + 4
             ELSE base + (MLU_div[c + 2] - MLU_div[c + 1])

\* C10 (as stated, for ed_type 'VED' or 'HED'): layer 0 is built with input
\* size n_in, layer k > 0 with the size of layer k-1, doubled after a
\* bidirectional layer and increased by the additional features after an
\* encoder layer; the output layer with the size of the last hidden layer,
\* doubled after a bidirectional layer.
C10_InputWidths ==
    ed_type \in {"VED", "HED"} =>
        /\ \A k \in 1..Len(rnn_layers) : rnn_layers[k].n_in = C10_Width(k)
        /\ (final_layer # NoFinal /\ ~final_layer.shared) =>
              final_layer.layer.n_in =
                 IF hidden_layer_type[Len(hidden_layer_type)] \in TagsOf(BLSTM_variants)
                 THEN hidden_layer_size[Len(hidden_layer_size)] * 2
                 ELSE hidden_layer_size[Len(hidden_layer_size)]

(***************************************************************************)
(* Properties of the builders and of the training call.                    *)
(***************************************************************************)
\* C3 (as stated): the training function a builder returns applies the
\* update rule the optimizer setting names.
C3_RuleNamedByOptimizer ==
    pc = "built" =>
        train_model.rule = CASE optimizer = "sgd"   -> "sgd"
                             [] optimizer = "adam"  -> "compile_ADAM_train_function"
                             [] optimizer = "rprop" -> "compile_RPROP_train_function"
                             [] OTHER               -> "?"

\* C6 (as stated, for calls on a network with a loss and a layer_index within
\* the hidden layers): with any other optimizer build_finetune_functions and
\* build_finetune_functions_S2SPF log the critical message and exit with
\* status 1, return no function and change no parameter.
C6_UnsupportedOptimizerExits ==
    ( /\ optimizer \notin {"sgd", "adam", "rprop"}
      /\ called.name \in {"build_finetune_functions", "build_finetune_functions_S2SPF"}
      /\ finetune_cost # NoExpr
      /\ called.layer_index <= Len(rnn_layers) ) =>
        /\ raised = "SystemExit(1)"
        /\ Len(log) = 1 /\ log[1].level = "critical" /\ log[1].arg = optimizer
        /\ train_model = NoFunction
        /\ \A q \in DOMAIN value : value[q] = 0

TrainingCall == calls' = calls + 1

\* the list a builder trains: the parameters named 'c' with use_lhuc, else
\* all of params
TrainedList ==
    IF called.use_lhuc THEN SelectSeq(params, LAMBDA q : q.name = "c") ELSE params
TrainedSet == {TrainedList[j] : j \in 1..Len(TrainedList)}
PlaceInTrained(q) == CHOOSE j \in 1..Len(TrainedList) : TrainedList[j] = q
\* the parameters of the hidden layers below layer_index
BelowIndex == {j \in 1..Len(params) : params[j].layer < called.layer_index}
\* build_finetune_functions leaves alone the first |BelowIndex| places of
\* the list it trains
Frozen(q) ==
    /\ called.name = "build_finetune_functions"
    /\ PlaceInTrained(q) <= Cardinality(BelowIndex)
\* build_finetune_functions_S2SPF doubles the learning rate below layer_index
RateFactor(q) ==
    IF called.name = "build_finetune_functions_S2SPF" /\ q.layer < called.layer_index
    THEN 2 ELSE 1

\* C8 (as amended): one call of a training function built with the momentum
\* updates replaces the buffer u of every trained parameter by
\* u' = mom*u - r*lr*g, where r is 1, except that build_finetune_functions_S2SPF
\* uses r = 2 for the parameters of the hidden layers below layer_index; it
\* replaces the parameter by p' = p + u', except that build_finetune_functions
\* leaves the parameters it freezes unchanged; all from the values held
\* before the call, and nothing else changes.  Hence the buffer of every
\* trained parameter that is not frozen equals the increment last added to it.
C8_MomentumStep ==
    [][TrainingCall =>
        \A q \in DOMAIN value :
            IF q \in TrainedSet
            THEN /\ updates'[q] = call'.mom * updates[q]
                                  - RateFactor(q) * call'.lr * Gradient(q, call'.g)
                 /\ value'[q] = IF Frozen(q) THEN value[q] ELSE value[q] + updates'[q]
                 /\ ~Frozen(q) => increment'[q] = updates'[q]
            ELSE updates'[q] = updates[q] /\ value'[q] = value[q]]_vars

\* C8, witness: a second call with momentum on a function that
\* build_finetune_functions built with one frozen layer has moved a parameter.
C8_Witness ==
    /\ calls = 2
    /\ call.mom = 1
    /\ called = [name |-> "build_finetune_functions", use_lhuc |-> FALSE, layer_index |-> 1]
    /\ \E q \in DOMAIN value : value[q] # 0 /\ updates[q] # 0

\* C8 (as stated, for the trained parameters the function steps): one call
\* of a function built with optimizer 'sgd' replaces the buffer by
\* u' = mom*u - lr*g and the parameter by p + u'.
C8_PlainStep ==
    [][TrainingCall =>
        \A q \in {t \in TrainedSet : ~Frozen(t)} :
            /\ updates'[q] = call'.mom * updates[q] - call'.lr * Gradient(q, call'.g)
            /\ value'[q] = value[q] + updates'[q]]_vars

\* C9 (as stated): a call of a function built by build_finetune_functions
\* with layer_index = k leaves the trainable parameters of the hidden layers
\* 0..k-1 unchanged and adds upd to every trainable parameter of a hidden
\* layer of index >= k and of the output layer.
C9_FrozenLayers ==
    [][(TrainingCall /\ called.name = "build_finetune_functions") =>
        \A q \in TrainedSet :
            IF q.layer < called.layer_index
            THEN value'[q] = value[q]
            ELSE value'[q] = value[q] + updates'[q]]_vars

====
